---- MODULE Spec2Model ----
(***************************************************************************)
(* The X11/inputtino input emitters of Sunshine's Linux platform layer:    *)
(* platf::keyboard (update, unicode) and platf::mouse (move, move_abs,     *)
(* button, scroll, hscroll).  Every handler is one action; the calls it    *)
(* makes on the X connection and on the virtual keyboard are recorded, in  *)
(* order, in xcalls and kbcalls.                                           *)
(***************************************************************************)
EXTENDS Integers, Sequences, FiniteSets, TLC

VARIABLES
  call,      \* the handler that ran last: its name (op), the input_raw_t it
             \* was given (raw), its arguments and the answers the libraries
             \* gave it; [op |-> "none"] between calls
  keycodes,  \* the keycode table (static constexpr keycodes)
  xcalls,    \* the Xlib/XTest calls the handler made, in order
  kbcalls,   \* the press/release calls made on raw->keyboard, in order
  reads,     \* the indices at which the handler read keycodes[]
  found,     \* <<e>> when update went on with the table element e, else <<>>
  tally      \* an observer's count over one run of scroll and hscroll calls:
             \* the calls made, the sum of their distances, the pulses they
             \* made, and whether every distance was below one quantum

vars == <<call, keycodes, xcalls, kbcalls, reads, found, tally>>

----------------------------------------------------------------------------
\* Bounds of the model.

\* update is called with modcode in 0..MaxModcode and with UINT16_MAX.
MaxModcode == 260
\* scroll and hscroll are called with distances in -MaxDistance..MaxDistance.
MaxDistance == 200
\* unicode is called with at most MaxCodePoints code points of CodePoints.
MaxCodePoints == 2
\* move is called with deltas in -MaxDelta..MaxDelta, move_abs with
\* coordinates of n/4, n in -MaxQuarter..MaxQuarter.
MaxDelta == 1
MaxQuarter == 6
\* A run of scroll and hscroll calls that is observed has at most MaxCalls calls.
MaxCalls == 3

----------------------------------------------------------------------------
\* inputtino_keyboard.cpp: the tables.

UNKNOWN == 0

\* The EV_KEY event codes (linux/input-event-codes.h) named in this file.
EV_KEY ==
  [ KEY_ESC |-> \H1, KEY_1 |-> \H2, KEY_2 |-> \H3,
    KEY_3 |-> \H4, KEY_4 |-> \H5, KEY_5 |-> \H6,
    KEY_6 |-> \H7, KEY_7 |-> \H8, KEY_8 |-> \H9,
    KEY_9 |-> \HA, KEY_0 |-> \HB, KEY_MINUS |-> \HC,
    KEY_EQUAL |-> \HD, KEY_BACKSPACE |-> \HE, KEY_TAB |-> \HF,
    KEY_Q |-> \H10, KEY_W |-> \H11, KEY_E |-> \H12,
    KEY_R |-> \H13, KEY_T |-> \H14, KEY_Y |-> \H15,
    KEY_U |-> \H16, KEY_I |-> \H17, KEY_O |-> \H18,
    KEY_P |-> \H19, KEY_LEFTBRACE |-> \H1A, KEY_RIGHTBRACE |-> \H1B,
    KEY_ENTER |-> \H1C, KEY_LEFTCTRL |-> \H1D, KEY_A |-> \H1E,
    KEY_S |-> \H1F, KEY_D |-> \H20, KEY_F |-> \H21,
    KEY_G |-> \H22, KEY_H |-> \H23, KEY_J |-> \H24,
    KEY_K |-> \H25, KEY_L |-> \H26, KEY_SEMICOLON |-> \H27,
    KEY_APOSTROPHE |-> \H28, KEY_GRAVE |-> \H29, KEY_LEFTSHIFT |-> \H2A,
    KEY_BACKSLASH |-> \H2B, KEY_Z |-> \H2C, KEY_X |-> \H2D,
    KEY_C |-> \H2E, KEY_V |-> \H2F, KEY_B |-> \H30,
    KEY_N |-> \H31, KEY_M |-> \H32, KEY_COMMA |-> \H33,
    KEY_DOT |-> \H34, KEY_SLASH |-> \H35, KEY_RIGHTSHIFT |-> \H36,
    KEY_KPASTERISK |-> \H37, KEY_LEFTALT |-> \H38, KEY_SPACE |-> \H39,
    KEY_CAPSLOCK |-> \H3A, KEY_F1 |-> \H3B, KEY_F2 |-> \H3C,
    KEY_F3 |-> \H3D, KEY_F4 |-> \H3E, KEY_F5 |-> \H3F,
    KEY_F6 |-> \H40, KEY_F7 |-> \H41, KEY_F8 |-> \H42,
    KEY_F9 |-> \H43, KEY_F10 |-> \H44, KEY_NUMLOCK |-> \H45,
    KEY_SCROLLLOCK |-> \H46, KEY_KP7 |-> \H47, KEY_KP8 |-> \H48,
    KEY_KP9 |-> \H49, KEY_KPMINUS |-> \H4A, KEY_KP4 |-> \H4B,
    KEY_KP5 |-> \H4C, KEY_KP6 |-> \H4D, KEY_KPPLUS |-> \H4E,
    KEY_KP1 |-> \H4F, KEY_KP2 |-> \H50, KEY_KP3 |-> \H51,
    KEY_KP0 |-> \H52, KEY_KPDOT |-> \H53, KEY_102ND |-> \H56,
    KEY_F11 |-> \H57, KEY_F12 |-> \H58, KEY_KATAKANA |-> \H5A,
    KEY_KATAKANAHIRAGANA |-> \H5D, KEY_RIGHTCTRL |-> \H61, KEY_KPSLASH |-> \H62,
    KEY_SYSRQ |-> \H63, KEY_RIGHTALT |-> \H64, KEY_HOME |-> \H66,
    KEY_UP |-> \H67, KEY_PAGEUP |-> \H68, KEY_LEFT |-> \H69,
    KEY_RIGHT |-> \H6A, KEY_END |-> \H6B, KEY_DOWN |-> \H6C,
    KEY_PAGEDOWN |-> \H6D, KEY_INSERT |-> \H6E, KEY_DELETE |-> \H6F,
    KEY_PAUSE |-> \H77, KEY_KPCOMMA |-> \H79, KEY_HANGEUL |-> \H7A,
    KEY_HANJA |-> \H7B, KEY_LEFTMETA |-> \H7D, KEY_RIGHTMETA |-> \H7E,
    KEY_HELP |-> \H8A, KEY_SLEEP |-> \H8E, KEY_F13 |-> \HB7,
    KEY_F14 |-> \HB8, KEY_F15 |-> \HB9, KEY_F16 |-> \HBA,
    KEY_F17 |-> \HBB, KEY_F18 |-> \HBC, KEY_F19 |-> \HBD,
    KEY_F20 |-> \HBE, KEY_F21 |-> \HBF, KEY_F23 |-> \HC1,
    KEY_F24 |-> \HC2, KEY_PRINT |-> \HD2, KEY_SELECT |-> \H161,
    KEY_CLEAR |-> \H163 ]

\* The X11 key symbols (X11/keysymdef.h) named in this file.
XK ==
  [ XK_space |-> \H20, XK_apostrophe |-> \H27, XK_comma |-> \H2C,
    XK_minus |-> \H2D, XK_period |-> \H2E, XK_slash |-> \H2F,
    XK_0 |-> \H30, XK_1 |-> \H31, XK_2 |-> \H32,
    XK_3 |-> \H33, XK_4 |-> \H34, XK_5 |-> \H35,
    XK_6 |-> \H36, XK_7 |-> \H37, XK_8 |-> \H38,
    XK_9 |-> \H39, XK_semicolon |-> \H3B, XK_equal |-> \H3D,
    XK_A |-> \H41, XK_B |-> \H42, XK_C |-> \H43,
    XK_D |-> \H44, XK_E |-> \H45, XK_F |-> \H46,
    XK_G |-> \H47, XK_H |-> \H48, XK_I |-> \H49,
    XK_J |-> \H4A, XK_K |-> \H4B, XK_L |-> \H4C,
    XK_M |-> \H4D, XK_N |-> \H4E, XK_O |-> \H4F,
    XK_P |-> \H50, XK_Q |-> \H51, XK_R |-> \H52,
    XK_S |-> \H53, XK_T |-> \H54, XK_U |-> \H55,
    XK_V |-> \H56, XK_W |-> \H57, XK_X |-> \H58,
    XK_Y |-> \H59, XK_Z |-> \H5A, XK_backslash |-> \H5C,
    XK_grave |-> \H60, XK_braceleft |-> \H7B, XK_braceright |-> \H7D,
    XK_BackSpace |-> \HFF08, XK_Tab |-> \HFF09, XK_Clear |-> \HFF0B,
    XK_Return |-> \HFF0D, XK_Pause |-> \HFF13, XK_Scroll_Lock |-> \HFF14,
    XK_Sys_Req |-> \HFF15, XK_Escape |-> \HFF1B, XK_Kanji |-> \HFF21,
    XK_Kana_Shift |-> \HFF2E, XK_Hangul |-> \HFF31, XK_Hangul_Jeonja |-> \HFF38,
    XK_Home |-> \HFF50, XK_Left |-> \HFF51, XK_Up |-> \HFF52,
    XK_Right |-> \HFF53, XK_Down |-> \HFF54, XK_Page_Up |-> \HFF55,
    XK_Page_Down |-> \HFF56, XK_End |-> \HFF57, XK_Select |-> \HFF60,
    XK_Print |-> \HFF61, XK_Insert |-> \HFF63, XK_Help |-> \HFF6A,
    XK_Num_Lock |-> \HFF7F, XK_KP_Multiply |-> \HFFAA, XK_KP_Add |-> \HFFAB,
    XK_KP_Separator |-> \HFFAC, XK_KP_Subtract |-> \HFFAD, XK_KP_Decimal |-> \HFFAE,
    XK_KP_Divide |-> \HFFAF, XK_KP_0 |-> \HFFB0, XK_KP_1 |-> \HFFB1,
    XK_KP_2 |-> \HFFB2, XK_KP_3 |-> \HFFB3, XK_KP_4 |-> \HFFB4,
    XK_KP_5 |-> \HFFB5, XK_KP_6 |-> \HFFB6, XK_KP_7 |-> \HFFB7,
    XK_KP_8 |-> \HFFB8, XK_KP_9 |-> \HFFB9, XK_F1 |-> \HFFBE,
    XK_F2 |-> \HFFBF, XK_F3 |-> \HFFC0, XK_F4 |-> \HFFC1,
    XK_F5 |-> \HFFC2, XK_F6 |-> \HFFC3, XK_F7 |-> \HFFC4,
    XK_F8 |-> \HFFC5, XK_F9 |-> \HFFC6, XK_F10 |-> \HFFC7,
    XK_F11 |-> \HFFC8, XK_F12 |-> \HFFC9, XK_F13 |-> \HFFCA,
    XK_F14 |-> \HFFCB, XK_F15 |-> \HFFCC, XK_F16 |-> \HFFCD,
    XK_F17 |-> \HFFCE, XK_F18 |-> \HFFCF, XK_F19 |-> \HFFD0,
    XK_F20 |-> \HFFD1, XK_F21 |-> \HFFD2, XK_F23 |-> \HFFD4,
    XK_F24 |-> \HFFD5, XK_Shift_L |-> \HFFE1, XK_Shift_R |-> \HFFE2,
    XK_Control_L |-> \HFFE3, XK_Control_R |-> \HFFE4, XK_Caps_Lock |-> \HFFE5,
    XK_Meta_L |-> \HFFE7, XK_Meta_R |-> \HFFE8, XK_Alt_L |-> \HFFE9,
    XK_Alt_R |-> \HFFEA, XK_Delete |-> \HFFFF ]

\* The __CONVERT(wincode, linuxcode, scancode, keysym) lines, in source order.
ConvertLines ==
  << <<\H08, EV_KEY.KEY_BACKSPACE, \H7002A, XK.XK_BackSpace>>,  \* VKEY_BACK
     <<\H09, EV_KEY.KEY_TAB, \H7002B, XK.XK_Tab>>,  \* VKEY_TAB
     <<\H0C, EV_KEY.KEY_CLEAR, UNKNOWN, XK.XK_Clear>>,  \* VKEY_CLEAR
     <<\H0D, EV_KEY.KEY_ENTER, \H70028, XK.XK_Return>>,  \* VKEY_RETURN
     <<\H10, EV_KEY.KEY_LEFTSHIFT, \H700E1, XK.XK_Shift_L>>,  \* VKEY_SHIFT
     <<\H11, EV_KEY.KEY_LEFTCTRL, \H700E0, XK.XK_Control_L>>,  \* VKEY_CONTROL
     <<\H12, EV_KEY.KEY_LEFTALT, UNKNOWN, XK.XK_Alt_L>>,  \* VKEY_MENU
     <<\H13, EV_KEY.KEY_PAUSE, UNKNOWN, XK.XK_Pause>>,  \* VKEY_PAUSE
     <<\H14, EV_KEY.KEY_CAPSLOCK, \H70039, XK.XK_Caps_Lock>>,  \* VKEY_CAPITAL
     <<\H15, EV_KEY.KEY_KATAKANAHIRAGANA, UNKNOWN, XK.XK_Kana_Shift>>,  \* VKEY_KANA
     <<\H16, EV_KEY.KEY_HANGEUL, UNKNOWN, XK.XK_Hangul>>,  \* VKEY_HANGUL
     <<\H17, EV_KEY.KEY_HANJA, UNKNOWN, XK.XK_Hangul_Jeonja>>,  \* VKEY_JUNJA
     <<\H19, EV_KEY.KEY_KATAKANA, UNKNOWN, XK.XK_Kanji>>,  \* VKEY_KANJI
     <<\H1B, EV_KEY.KEY_ESC, \H70029, XK.XK_Escape>>,  \* VKEY_ESCAPE
     <<\H20, EV_KEY.KEY_SPACE, \H7002C, XK.XK_space>>,  \* VKEY_SPACE
     <<\H21, EV_KEY.KEY_PAGEUP, \H7004B, XK.XK_Page_Up>>,  \* VKEY_PRIOR
     <<\H22, EV_KEY.KEY_PAGEDOWN, \H7004E, XK.XK_Page_Down>>,  \* VKEY_NEXT
     <<\H23, EV_KEY.KEY_END, \H7004D, XK.XK_End>>,  \* VKEY_END
     <<\H24, EV_KEY.KEY_HOME, \H7004A, XK.XK_Home>>,  \* VKEY_HOME
     <<\H25, EV_KEY.KEY_LEFT, \H70050, XK.XK_Left>>,  \* VKEY_LEFT
     <<\H26, EV_KEY.KEY_UP, \H70052, XK.XK_Up>>,  \* VKEY_UP
     <<\H27, EV_KEY.KEY_RIGHT, \H7004F, XK.XK_Right>>,  \* VKEY_RIGHT
     <<\H28, EV_KEY.KEY_DOWN, \H70051, XK.XK_Down>>,  \* VKEY_DOWN
     <<\H29, EV_KEY.KEY_SELECT, UNKNOWN, XK.XK_Select>>,  \* VKEY_SELECT
     <<\H2A, EV_KEY.KEY_PRINT, UNKNOWN, XK.XK_Print>>,  \* VKEY_PRINT
     <<\H2C, EV_KEY.KEY_SYSRQ, \H70046, XK.XK_Sys_Req>>,  \* VKEY_SNAPSHOT
     <<\H2D, EV_KEY.KEY_INSERT, \H70049, XK.XK_Insert>>,  \* VKEY_INSERT
     <<\H2E, EV_KEY.KEY_DELETE, \H7004C, XK.XK_Delete>>,  \* VKEY_DELETE
     <<\H2F, EV_KEY.KEY_HELP, UNKNOWN, XK.XK_Help>>,  \* VKEY_HELP
     <<\H30, EV_KEY.KEY_0, \H70027, XK.XK_0>>,  \* VKEY_0
     <<\H31, EV_KEY.KEY_1, \H7001E, XK.XK_1>>,  \* VKEY_1
     <<\H32, EV_KEY.KEY_2, \H7001F, XK.XK_2>>,  \* VKEY_2
     <<\H33, EV_KEY.KEY_3, \H70020, XK.XK_3>>,  \* VKEY_3
     <<\H34, EV_KEY.KEY_4, \H70021, XK.XK_4>>,  \* VKEY_4
     <<\H35, EV_KEY.KEY_5, \H70022, XK.XK_5>>,  \* VKEY_5
     <<\H36, EV_KEY.KEY_6, \H70023, XK.XK_6>>,  \* VKEY_6
     <<\H37, EV_KEY.KEY_7, \H70024, XK.XK_7>>,  \* VKEY_7
     <<\H38, EV_KEY.KEY_8, \H70025, XK.XK_8>>,  \* VKEY_8
     <<\H39, EV_KEY.KEY_9, \H70026, XK.XK_9>>,  \* VKEY_9
     <<\H41, EV_KEY.KEY_A, \H70004, XK.XK_A>>,  \* VKEY_A
     <<\H42, EV_KEY.KEY_B, \H70005, XK.XK_B>>,  \* VKEY_B
     <<\H43, EV_KEY.KEY_C, \H70006, XK.XK_C>>,  \* VKEY_C
     <<\H44, EV_KEY.KEY_D, \H70007, XK.XK_D>>,  \* VKEY_D
     <<\H45, EV_KEY.KEY_E, \H70008, XK.XK_E>>,  \* VKEY_E
     <<\H46, EV_KEY.KEY_F, \H70009, XK.XK_F>>,  \* VKEY_F
     <<\H47, EV_KEY.KEY_G, \H7000A, XK.XK_G>>,  \* VKEY_G
     <<\H48, EV_KEY.KEY_H, \H7000B, XK.XK_H>>,  \* VKEY_H
     <<\H49, EV_KEY.KEY_I, \H7000C, XK.XK_I>>,  \* VKEY_I
     <<\H4A, EV_KEY.KEY_J, \H7000D, XK.XK_J>>,  \* VKEY_J
     <<\H4B, EV_KEY.KEY_K, \H7000E, XK.XK_K>>,  \* VKEY_K
     <<\H4C, EV_KEY.KEY_L, \H7000F, XK.XK_L>>,  \* VKEY_L
     <<\H4D, EV_KEY.KEY_M, \H70010, XK.XK_M>>,  \* VKEY_M
     <<\H4E, EV_KEY.KEY_N, \H70011, XK.XK_N>>,  \* VKEY_N
     <<\H4F, EV_KEY.KEY_O, \H70012, XK.XK_O>>,  \* VKEY_O
     <<\H50, EV_KEY.KEY_P, \H70013, XK.XK_P>>,  \* VKEY_P
     <<\H51, EV_KEY.KEY_Q, \H70014, XK.XK_Q>>,  \* VKEY_Q
     <<\H52, EV_KEY.KEY_R, \H70015, XK.XK_R>>,  \* VKEY_R
     <<\H53, EV_KEY.KEY_S, \H70016, XK.XK_S>>,  \* VKEY_S
     <<\H54, EV_KEY.KEY_T, \H70017, XK.XK_T>>,  \* VKEY_T
     <<\H55, EV_KEY.KEY_U, \H70018, XK.XK_U>>,  \* VKEY_U
     <<\H56, EV_KEY.KEY_V, \H70019, XK.XK_V>>,  \* VKEY_V
     <<\H57, EV_KEY.KEY_W, \H7001A, XK.XK_W>>,  \* VKEY_W
     <<\H58, EV_KEY.KEY_X, \H7001B, XK.XK_X>>,  \* VKEY_X
     <<\H59, EV_KEY.KEY_Y, \H7001C, XK.XK_Y>>,  \* VKEY_Y
     <<\H5A, EV_KEY.KEY_Z, \H7001D, XK.XK_Z>>,  \* VKEY_Z
     <<\H5B, EV_KEY.KEY_LEFTMETA, \H700E3, XK.XK_Meta_L>>,  \* VKEY_LWIN
     <<\H5C, EV_KEY.KEY_RIGHTMETA, \H700E7, XK.XK_Meta_R>>,  \* VKEY_RWIN
     <<\H5F, EV_KEY.KEY_SLEEP, UNKNOWN, UNKNOWN>>,  \* VKEY_SLEEP
     <<\H60, EV_KEY.KEY_KP0, \H70062, XK.XK_KP_0>>,  \* VKEY_NUMPAD0
     <<\H61, EV_KEY.KEY_KP1, \H70059, XK.XK_KP_1>>,  \* VKEY_NUMPAD1
     <<\H62, EV_KEY.KEY_KP2, \H7005A, XK.XK_KP_2>>,  \* VKEY_NUMPAD2
     <<\H63, EV_KEY.KEY_KP3, \H7005B, XK.XK_KP_3>>,  \* VKEY_NUMPAD3
     <<\H64, EV_KEY.KEY_KP4, \H7005C, XK.XK_KP_4>>,  \* VKEY_NUMPAD4
     <<\H65, EV_KEY.KEY_KP5, \H7005D, XK.XK_KP_5>>,  \* VKEY_NUMPAD5
     <<\H66, EV_KEY.KEY_KP6, \H7005E, XK.XK_KP_6>>,  \* VKEY_NUMPAD6
     <<\H67, EV_KEY.KEY_KP7, \H7005F, XK.XK_KP_7>>,  \* VKEY_NUMPAD7
     <<\H68, EV_KEY.KEY_KP8, \H70060, XK.XK_KP_8>>,  \* VKEY_NUMPAD8
     <<\H69, EV_KEY.KEY_KP9, \H70061, XK.XK_KP_9>>,  \* VKEY_NUMPAD9
     <<\H6A, EV_KEY.KEY_KPASTERISK, \H70055, XK.XK_KP_Multiply>>,  \* VKEY_MULTIPLY
     <<\H6B, EV_KEY.KEY_KPPLUS, \H70057, XK.XK_KP_Add>>,  \* VKEY_ADD
     <<\H6C, EV_KEY.KEY_KPCOMMA, UNKNOWN, XK.XK_KP_Separator>>,  \* VKEY_SEPARATOR
     <<\H6D, EV_KEY.KEY_KPMINUS, \H70056, XK.XK_KP_Subtract>>,  \* VKEY_SUBTRACT
     <<\H6E, EV_KEY.KEY_KPDOT, \H70063, XK.XK_KP_Decimal>>,  \* VKEY_DECIMAL
     <<\H6F, EV_KEY.KEY_KPSLASH, \H70054, XK.XK_KP_Divide>>,  \* VKEY_DIVIDE
     <<\H70, EV_KEY.KEY_F1, \H70046, XK.XK_F1>>,  \* VKEY_F1
     <<\H71, EV_KEY.KEY_F2, \H70047, XK.XK_F2>>,  \* VKEY_F2
     <<\H72, EV_KEY.KEY_F3, \H70048, XK.XK_F3>>,  \* VKEY_F3
     <<\H73, EV_KEY.KEY_F4, \H70049, XK.XK_F4>>,  \* VKEY_F4
     <<\H74, EV_KEY.KEY_F5, \H7004A, XK.XK_F5>>,  \* VKEY_F5
     <<\H75, EV_KEY.KEY_F6, \H7004B, XK.XK_F6>>,  \* VKEY_F6
     <<\H76, EV_KEY.KEY_F7, \H7004C, XK.XK_F7>>,  \* VKEY_F7
     <<\H77, EV_KEY.KEY_F8, \H7004D, XK.XK_F8>>,  \* VKEY_F8
     <<\H78, EV_KEY.KEY_F9, \H7004E, XK.XK_F9>>,  \* VKEY_F9
     <<\H79, EV_KEY.KEY_F10, \H70044, XK.XK_F10>>,  \* VKEY_F10
     <<\H7A, EV_KEY.KEY_F11, \H70044, XK.XK_F11>>,  \* VKEY_F11
     <<\H7B, EV_KEY.KEY_F12, \H70045, XK.XK_F12>>,  \* VKEY_F12
     <<\H7C, EV_KEY.KEY_F13, \H7003A, XK.XK_F13>>,  \* VKEY_F13
     <<\H7D, EV_KEY.KEY_F14, \H7003B, XK.XK_F14>>,  \* VKEY_F14
     <<\H7E, EV_KEY.KEY_F15, \H7003C, XK.XK_F15>>,  \* VKEY_F15
     <<\H7F, EV_KEY.KEY_F16, \H7003D, XK.XK_F16>>,  \* VKEY_F16
     <<\H80, EV_KEY.KEY_F17, \H7003E, XK.XK_F17>>,  \* VKEY_F17
     <<\H81, EV_KEY.KEY_F18, \H7003F, XK.XK_F18>>,  \* VKEY_F18
     <<\H82, EV_KEY.KEY_F19, \H70040, XK.XK_F19>>,  \* VKEY_F19
     <<\H83, EV_KEY.KEY_F20, \H70041, XK.XK_F20>>,  \* VKEY_F20
     <<\H84, EV_KEY.KEY_F21, \H70042, XK.XK_F21>>,  \* VKEY_F21
     <<\H85, EV_KEY.KEY_F12, \H70043, XK.XK_F12>>,  \* VKEY_F22
     <<\H86, EV_KEY.KEY_F23, \H70044, XK.XK_F23>>,  \* VKEY_F23
     <<\H87, EV_KEY.KEY_F24, \H70045, XK.XK_F24>>,  \* VKEY_F24
     <<\H90, EV_KEY.KEY_NUMLOCK, \H70053, XK.XK_Num_Lock>>,  \* VKEY_NUMLOCK
     <<\H91, EV_KEY.KEY_SCROLLLOCK, \H70047, XK.XK_Scroll_Lock>>,  \* VKEY_SCROLL
     <<\HA0, EV_KEY.KEY_LEFTSHIFT, \H700E1, XK.XK_Shift_L>>,  \* VKEY_LSHIFT
     <<\HA1, EV_KEY.KEY_RIGHTSHIFT, \H700E5, XK.XK_Shift_R>>,  \* VKEY_RSHIFT
     <<\HA2, EV_KEY.KEY_LEFTCTRL, \H700E0, XK.XK_Control_L>>,  \* VKEY_LCONTROL
     <<\HA3, EV_KEY.KEY_RIGHTCTRL, \H700E4, XK.XK_Control_R>>,  \* VKEY_RCONTROL
     <<\HA4, EV_KEY.KEY_LEFTALT, \H7002E, XK.XK_Alt_L>>,  \* VKEY_LMENU
     <<\HA5, EV_KEY.KEY_RIGHTALT, \H700E6, XK.XK_Alt_R>>,  \* VKEY_RMENU
     <<\HBA, EV_KEY.KEY_SEMICOLON, \H70033, XK.XK_semicolon>>,  \* VKEY_OEM_1
     <<\HBB, EV_KEY.KEY_EQUAL, \H7002E, XK.XK_equal>>,  \* VKEY_OEM_PLUS
     <<\HBC, EV_KEY.KEY_COMMA, \H70036, XK.XK_comma>>,  \* VKEY_OEM_COMMA
     <<\HBD, EV_KEY.KEY_MINUS, \H7002D, XK.XK_minus>>,  \* VKEY_OEM_MINUS
     <<\HBE, EV_KEY.KEY_DOT, \H70037, XK.XK_period>>,  \* VKEY_OEM_PERIOD
     <<\HBF, EV_KEY.KEY_SLASH, \H70038, XK.XK_slash>>,  \* VKEY_OEM_2
     <<\HC0, EV_KEY.KEY_GRAVE, \H70035, XK.XK_grave>>,  \* VKEY_OEM_3
     <<\HDB, EV_KEY.KEY_LEFTBRACE, \H7002F, XK.XK_braceleft>>,  \* VKEY_OEM_4
     <<\HDC, EV_KEY.KEY_BACKSLASH, \H70031, XK.XK_backslash>>,  \* VKEY_OEM_5
     <<\HDD, EV_KEY.KEY_RIGHTBRACE, \H70030, XK.XK_braceright>>,  \* VKEY_OEM_6
     <<\HDE, EV_KEY.KEY_APOSTROPHE, \H70034, XK.XK_apostrophe>>,  \* VKEY_OEM_7
     <<\HE2, EV_KEY.KEY_102ND, \H70064, XK.XK_backslash>> >>  \* VKEY_NON_US_BACKSLASH

\* The {linux key code, Moonlight key code} pairs of key_mappings, in source order.
KeyMappingPairs ==
  << <<EV_KEY.KEY_BACKSPACE, \H08>>,
     <<EV_KEY.KEY_TAB, \H09>>,
     <<EV_KEY.KEY_ENTER, \H0D>>,
     <<EV_KEY.KEY_LEFTSHIFT, \H10>>,
     <<EV_KEY.KEY_LEFTCTRL, \H11>>,
     <<EV_KEY.KEY_CAPSLOCK, \H14>>,
     <<EV_KEY.KEY_ESC, \H1B>>,
     <<EV_KEY.KEY_SPACE, \H20>>,
     <<EV_KEY.KEY_PAGEUP, \H21>>,
     <<EV_KEY.KEY_PAGEDOWN, \H22>>,
     <<EV_KEY.KEY_END, \H23>>,
     <<EV_KEY.KEY_HOME, \H24>>,
     <<EV_KEY.KEY_LEFT, \H25>>,
     <<EV_KEY.KEY_UP, \H26>>,
     <<EV_KEY.KEY_RIGHT, \H27>>,
     <<EV_KEY.KEY_DOWN, \H28>>,
     <<EV_KEY.KEY_SYSRQ, \H2C>>,
     <<EV_KEY.KEY_INSERT, \H2D>>,
     <<EV_KEY.KEY_DELETE, \H2E>>,
     <<EV_KEY.KEY_0, \H30>>,
     <<EV_KEY.KEY_1, \H31>>,
     <<EV_KEY.KEY_2, \H32>>,
     <<EV_KEY.KEY_3, \H33>>,
     <<EV_KEY.KEY_4, \H34>>,
     <<EV_KEY.KEY_5, \H35>>,
     <<EV_KEY.KEY_6, \H36>>,
     <<EV_KEY.KEY_7, \H37>>,
     <<EV_KEY.KEY_8, \H38>>,
     <<EV_KEY.KEY_9, \H39>>,
     <<EV_KEY.KEY_A, \H41>>,
     <<EV_KEY.KEY_B, \H42>>,
     <<EV_KEY.KEY_C, \H43>>,
     <<EV_KEY.KEY_D, \H44>>,
     <<EV_KEY.KEY_E, \H45>>,
     <<EV_KEY.KEY_F, \H46>>,
     <<EV_KEY.KEY_G, \H47>>,
     <<EV_KEY.KEY_H, \H48>>,
     <<EV_KEY.KEY_I, \H49>>,
     <<EV_KEY.KEY_J, \H4A>>,
     <<EV_KEY.KEY_K, \H4B>>,
     <<EV_KEY.KEY_L, \H4C>>,
     <<EV_KEY.KEY_M, \H4D>>,
     <<EV_KEY.KEY_N, \H4E>>,
     <<EV_KEY.KEY_O, \H4F>>,
     <<EV_KEY.KEY_P, \H50>>,
     <<EV_KEY.KEY_Q, \H51>>,
     <<EV_KEY.KEY_R, \H52>>,
     <<EV_KEY.KEY_S, \H53>>,
     <<EV_KEY.KEY_T, \H54>>,
     <<EV_KEY.KEY_U, \H55>>,
     <<EV_KEY.KEY_V, \H56>>,
     <<EV_KEY.KEY_W, \H57>>,
     <<EV_KEY.KEY_X, \H58>>,
     <<EV_KEY.KEY_Y, \H59>>,
     <<EV_KEY.KEY_Z, \H5A>>,
     <<EV_KEY.KEY_LEFTMETA, \H5B>>,
     <<EV_KEY.KEY_RIGHTMETA, \H5C>>,
     <<EV_KEY.KEY_KP0, \H60>>,
     <<EV_KEY.KEY_KP1, \H61>>,
     <<EV_KEY.KEY_KP2, \H62>>,
     <<EV_KEY.KEY_KP3, \H63>>,
     <<EV_KEY.KEY_KP4, \H64>>,
     <<EV_KEY.KEY_KP5, \H65>>,
     <<EV_KEY.KEY_KP6, \H66>>,
     <<EV_KEY.KEY_KP7, \H67>>,
     <<EV_KEY.KEY_KP8, \H68>>,
     <<EV_KEY.KEY_KP9, \H69>>,
     <<EV_KEY.KEY_KPASTERISK, \H6A>>,
     <<EV_KEY.KEY_KPPLUS, \H6B>>,
     <<EV_KEY.KEY_KPMINUS, \H6D>>,
     <<EV_KEY.KEY_KPDOT, \H6E>>,
     <<EV_KEY.KEY_KPSLASH, \H6F>>,
     <<EV_KEY.KEY_F1, \H70>>,
     <<EV_KEY.KEY_F2, \H71>>,
     <<EV_KEY.KEY_F3, \H72>>,
     <<EV_KEY.KEY_F4, \H73>>,
     <<EV_KEY.KEY_F5, \H74>>,
     <<EV_KEY.KEY_F6, \H75>>,
     <<EV_KEY.KEY_F7, \H76>>,
     <<EV_KEY.KEY_F8, \H77>>,
     <<EV_KEY.KEY_F9, \H78>>,
     <<EV_KEY.KEY_F10, \H79>>,
     <<EV_KEY.KEY_F11, \H7A>>,
     <<EV_KEY.KEY_F12, \H7B>>,
     <<EV_KEY.KEY_NUMLOCK, \H90>>,
     <<EV_KEY.KEY_SCROLLLOCK, \H91>>,
     <<EV_KEY.KEY_LEFTSHIFT, \HA0>>,
     <<EV_KEY.KEY_RIGHTSHIFT, \HA1>>,
     <<EV_KEY.KEY_LEFTCTRL, \HA2>>,
     <<EV_KEY.KEY_RIGHTCTRL, \HA3>>,
     <<EV_KEY.KEY_LEFTALT, \HA4>>,
     <<EV_KEY.KEY_RIGHTALT, \HA5>>,
     <<EV_KEY.KEY_SEMICOLON, \HBA>>,
     <<EV_KEY.KEY_EQUAL, \HBB>>,
     <<EV_KEY.KEY_COMMA, \HBC>>,
     <<EV_KEY.KEY_MINUS, \HBD>>,
     <<EV_KEY.KEY_DOT, \HBE>>,
     <<EV_KEY.KEY_SLASH, \HBF>>,
     <<EV_KEY.KEY_GRAVE, \HC0>>,
     <<EV_KEY.KEY_LEFTBRACE, \HDB>>,
     <<EV_KEY.KEY_BACKSLASH, \HDC>>,
     <<EV_KEY.KEY_RIGHTBRACE, \HDD>>,
     <<EV_KEY.KEY_APOSTROPHE, \HDE>>,
     <<EV_KEY.KEY_102ND, \HE2>> >>
\* An array with one element per code of 0x00..0xE3.
KeycodesSize_inclusive == \HE3 + 1

\* std::array<keycode_t, 0xE3>: the number of elements of the table.
KeycodesSize == 227

\* keycode_t {} : a value-initialised element.
keycode_t_zero == [keycode |-> 0, scancode |-> 0, keysym |-> 0]

\* init_keycodes(): the array is value-initialised, then every __CONVERT line
\* assigns keycodes[wincode] = keycode_t {linuxcode, scancode, keysym}; the
\* last assignment to an index is the one that stays.
init_keycodes ==
  [i \in 0..(KeycodesSize - 1) |->
     LET ns == {n \in 1..Len(ConvertLines) : ConvertLines[n][1] = i}
     IN  IF ns = {}
           THEN keycode_t_zero
           ELSE LET l == ConvertLines[CHOOSE n \in ns : \A m \in ns : m <= n]
                IN  [keycode |-> l[2], scancode |-> l[3], keysym |-> l[4]]]

\* static_assert(wincode < keycodes.size()) and static_assert(wincode >= 0)
\* hold of every __CONVERT line (the file compiles).
ConvertAsserts == \A n \in 1..Len(ConvertLines) :
  ConvertLines[n][1] >= 0 /\ ConvertLines[n][1] < KeycodesSize

\* The protocol codes that have a __CONVERT line.
LiteralCodes == {ConvertLines[n][1] : n \in 1..Len(ConvertLines)}

----------------------------------------------------------------------------
\* The sinks and the library answers.

\* input_raw_t: raw->XDisplay, raw->keyboard and raw->mouse, each present or not.
Sinks == [XDisplay : BOOLEAN, keyboard : BOOLEAN, mouse : BOOLEAN]

\* What XKeysymToKeycode can answer: 0 when the layout has no key for the
\* symbol, otherwise a KeyCode of the server (8..255).
KeyCodeAnswers == {0, 8, 38, 255}

\* What the memory right after the array can hold, as a keycode_t.
BeyondArray ==
  { keycode_t_zero,
    [keycode |-> EV_KEY.KEY_A, scancode |-> \H70004, keysym |-> XK.XK_A],
    [keycode |-> 0, scancode |-> 0, keysym |-> \HFFFFFF] }

ModCodes == 0..MaxModcode \cup {65535}

----------------------------------------------------------------------------
\* platf::keyboard::update

\* keycodes[i]: inside the array the element, outside it whatever is there.
ElementAt(table, i, beyond) == IF i \in DOMAIN table THEN table[i] ELSE beyond

XKeysymToKeycodeCall(keysym) == [fn |-> "XKeysymToKeycode", keysym |-> keysym]
XTestFakeKeyEventCall(keycode, is_press) ==
  [fn |-> "XTestFakeKeyEvent", keycode |-> keycode, is_press |-> is_press]
XFlushCall == [fn |-> "XFlush"]

\* lookup with the second guard on the scancode, as a build without X11
\* would have to discriminate.
lookup_by_scancode(table, modcode, beyond) ==
  IF modcode > KeycodesSize
    THEN <<>>
  ELSE IF ElementAt(table, modcode, beyond).scancode = UNKNOWN
    THEN <<>>
  ELSE <<ElementAt(table, modcode, beyond)>>

\* The two guards of update on modcode: <<e>> when the table element e passes
\* them, <<>> when update returns at one of them.
lookup(table, modcode, beyond) ==
  IF modcode > KeycodesSize
    THEN <<>>
  ELSE IF ElementAt(table, modcode, beyond).keysym = UNKNOWN
    THEN <<>>
  ELSE <<ElementAt(table, modcode, beyond)>>

\* The indices of keycodes[] these guards read.
lookup_reads(modcode) == IF modcode > KeycodesSize THEN {} ELSE {modcode}

\* update_body without the test of keycode_x against 0.
update_body_no_sentinel(table, sink, modcode, release, keycode_x, beyond) ==
  IF ~sink.XDisplay
    THEN [x |-> <<>>, reads |-> {}, found |-> <<>>]
    ELSE LET e == lookup(table, modcode, beyond)
             r == lookup_reads(modcode)
         IN  IF e = <<>>
               THEN [x |-> <<>>, reads |-> r, found |-> e]
               ELSE [x |-> << XKeysymToKeycodeCall(e[1].keysym),
                              XTestFakeKeyEventCall(keycode_x, ~release),
                              XFlushCall >>,
                     reads |-> r, found |-> e]

\* The body of update: the X calls it makes, the table indices it reads and
\* the element it goes on with.  keycode_x is the answer of XKeysymToKeycode,
\* beyond the memory after the array.
update_body(table, sink, modcode, release, keycode_x, beyond) ==
  IF ~sink.XDisplay
    THEN [x |-> <<>>, reads |-> {}, found |-> <<>>]
    ELSE LET e == lookup(table, modcode, beyond)
             r == lookup_reads(modcode)
         IN  IF e = <<>>
               THEN [x |-> <<>>, reads |-> r, found |-> e]
             ELSE IF keycode_x = 0
               THEN [x |-> <<XKeysymToKeycodeCall(e[1].keysym)>>,
                     reads |-> r, found |-> e]
             ELSE [x |-> << XKeysymToKeycodeCall(e[1].keysym),
                            XTestFakeKeyEventCall(keycode_x, ~release),
                            XFlushCall >>,
                   reads |-> r, found |-> e]

update ==
  /\ call.op = "none"
  /\ \E sink \in Sinks, modcode \in ModCodes, release \in BOOLEAN,
        keycode_x \in KeyCodeAnswers, beyond \in BeyondArray :
       LET r == update_body(keycodes, sink, modcode, release, keycode_x, beyond)
           \* the answers that were not asked for leave no trace
           asked == Len(r.x) > 0
           outside == r.reads \ DOMAIN keycodes # {}
       IN  /\ (~asked => keycode_x = 0)
           /\ (~outside => beyond = keycode_t_zero)
           /\ call' = [op |-> "update", raw |-> sink, modcode |-> modcode,
                       release |-> release, keycode_x |-> keycode_x,
                       beyond |-> beyond]
           /\ xcalls' = r.x
           /\ reads' = r.reads
           /\ found' = r.found
  /\ kbcalls' = <<>>
  /\ UNCHANGED <<keycodes, tally>>

----------------------------------------------------------------------------
\* platf::keyboard::unicode

\* The text a caller sends: up to MaxCodePoints code points.
CodePoints == {\H41, \HE9, \H356, \H789, \HBCD, \H20AC, \H1F471}

RECURSIVE SeqsUpTo(_, _)
SeqsUpTo(S, n) ==
  IF n = 0 THEN {<<>>}
  ELSE LET shorter == SeqsUpTo(S, n - 1)
       IN  shorter \cup {Append(q, e) : q \in shorter, e \in S}

\* The UTF-8 bytes of one code point, as the caller encoded them.
Utf8Encode(cp) ==
  IF cp < \H80 THEN <<cp>>
  ELSE IF cp < \H800 THEN <<\HC0 + (cp \div 64), \H80 + (cp % 64)>>
  ELSE IF cp < \H10000
    THEN <<\HE0 + (cp \div 4096), \H80 + ((cp \div 64) % 64), \H80 + (cp % 64)>>
  ELSE <<\HF0 + (cp \div 262144), \H80 + ((cp \div 4096) % 64),
         \H80 + ((cp \div 64) % 64), \H80 + (cp % 64)>>

RECURSIVE Utf8EncodeAll(_)
Utf8EncodeAll(cps) ==
  IF cps = <<>> THEN <<>> ELSE Utf8Encode(Head(cps)) \o Utf8EncodeAll(Tail(cps))

\* The (utf8, size) arguments of unicode, with the code points they carry:
\* well-formed text, and text with a stray or a truncated byte.
UnicodeInputs ==
  {[text |-> cps, utf8 |-> Utf8EncodeAll(cps)] : cps \in SeqsUpTo(CodePoints, MaxCodePoints)}
    \cup {[text |-> <<\H41>>, utf8 |-> <<\H41, \H80>>],
          [text |-> <<>>, utf8 |-> <<\HC3>>]}

IsTrail(b) == b >= \H80 /\ b <= \HBF

\* boost::locale::conv::to_utf<wchar_t>(utf8, utf8 + size, "UTF-8"): the code
\* points of the bytes; bytes that are no UTF-8 are skipped (method skip).
RECURSIVE to_utf(_)
to_utf(bytes) ==
  IF bytes = <<>> THEN <<>>
  ELSE LET b == bytes[1]
           n == Len(bytes)
           rest(k) == SubSeq(bytes, k + 1, n)
       IN  IF b < \H80 THEN <<b>> \o to_utf(rest(1))
           ELSE IF b >= \HC2 /\ b <= \HDF /\ n >= 2 /\ IsTrail(bytes[2])
             THEN <<(b - \HC0) * 64 + (bytes[2] - \H80)>> \o to_utf(rest(2))
           ELSE IF b >= \HE0 /\ b <= \HEF /\ n >= 3
                   /\ IsTrail(bytes[2]) /\ IsTrail(bytes[3])
             THEN <<(b - \HE0) * 4096 + (bytes[2] - \H80) * 64 + (bytes[3] - \H80)>>
                    \o to_utf(rest(3))
           ELSE IF b >= \HF0 /\ b <= \HF4 /\ n >= 4
                   /\ IsTrail(bytes[2]) /\ IsTrail(bytes[3]) /\ IsTrail(bytes[4])
             THEN <<(b - \HF0) * 262144 + (bytes[2] - \H80) * 4096
                      + (bytes[3] - \H80) * 64 + (bytes[4] - \H80)>>
                    \o to_utf(rest(4))
           ELSE to_utf(rest(1))

\* boost::locale::conv::utf_to_utf<char32_t> of a wchar_t string (32 bits on
\* Linux): the units that are code points, one char32_t each.
IsCodePoint(u) == u >= 0 /\ u <= \H10FFFF /\ ~(u >= \HD800 /\ u <= \HDFFF)
utf_to_utf(wstr) == SelectSeq(wstr, IsCodePoint)

HexLower == <<"0", "1", "2", "3", "4", "5", "6", "7", "8", "9",
              "a", "b", "c", "d", "e", "f">>

\* stream_hex with a field width of four, which setfill('0') would then fill.
RECURSIVE stream_hex_setw4(_)
stream_hex_setw4(n) ==
  IF n < 16 THEN <<"0", "0", "0", HexLower[n + 1]>>
  ELSE IF n < 256 THEN <<"0", "0", HexLower[(n \div 16) + 1], HexLower[(n % 16) + 1]>>
  ELSE IF n < 4096
    THEN <<"0", HexLower[(n \div 256) + 1], HexLower[((n \div 16) % 16) + 1],
           HexLower[(n % 16) + 1]>>
  ELSE stream_hex_setw4(n \div 16) \o <<HexLower[(n % 16) + 1]>>

\* ss << std::hex << static_cast<uint32_t>(ch): lower-case digits, no field
\* width is set, so nothing is filled.
RECURSIVE stream_hex(_)
stream_hex(n) ==
  IF n < 16 THEN <<HexLower[n + 1]>>
  ELSE stream_hex(n \div 16) \o <<HexLower[(n % 16) + 1]>>

toupper(c) ==
  CASE c = "a" -> "A" [] c = "b" -> "B" [] c = "c" -> "C"
    [] c = "d" -> "D" [] c = "e" -> "E" [] c = "f" -> "F"
    [] OTHER -> c

RECURSIVE stream_all(_)
stream_all(str) ==
  IF str = <<>> THEN <<>> ELSE stream_hex(Head(str)) \o stream_all(Tail(str))

to_hex(str) ==
  LET hex_unicode == stream_all(str)
  IN  [i \in 1..Len(hex_unicode) |-> toupper(hex_unicode[i])]

\* key_mappings with the pair of KEY_B written with the code of V, 0x56.
key_mappings_b_as_v ==
  [k \in {KeyMappingPairs[n][1] : n \in 1..Len(KeyMappingPairs)} |->
     LET ns == {n \in 1..Len(KeyMappingPairs) : KeyMappingPairs[n][1] = k}
     IN  IF k = EV_KEY.KEY_B
           THEN \H56
           ELSE KeyMappingPairs[CHOOSE n \in ns : \A m \in ns : n <= m][2]]

\* std::map<short, short> built from the initializer list: a key that is
\* listed twice keeps the value of its first pair.
key_mappings ==
  [k \in {KeyMappingPairs[n][1] : n \in 1..Len(KeyMappingPairs)} |->
     LET ns == {n \in 1..Len(KeyMappingPairs) : KeyMappingPairs[n][1] = k}
     IN  KeyMappingPairs[CHOOSE n \in ns : \A m \in ns : n <= m][2]]

\* libevdev_event_code_from_name(EV_KEY, name), for a libevdev that knows
\* the names in known: the code of the name, or -1.
libevdev_event_code_from_name(known, name) ==
  IF name \in known /\ name \in DOMAIN EV_KEY THEN EV_KEY[name] ELSE -1

\* The sets of names the host's libevdev can know.
LibevdevNames ==
  {DOMAIN EV_KEY \ missing : missing \in SUBSET {"KEY_1", "KEY_4", "KEY_F"}}

pressCall(key) == [fn |-> "press", key |-> key]
releaseCall(key) == [fn |-> "release", key |-> key]

\* One round of the loop over hex_unicode.
type_hex_digit(ch, known) ==
  LET key_str == "KEY_" \o ch
      keycode == libevdev_event_code_from_name(known, key_str)
  IN  IF keycode = -1 \/ keycode \notin DOMAIN key_mappings
        THEN <<>>
        ELSE <<pressCall(key_mappings[keycode]), releaseCall(key_mappings[keycode])>>

\* type_hex leaving the loop at the first digit it cannot resolve.
RECURSIVE type_hex_break(_, _)
type_hex_break(hex_unicode, known) ==
  IF hex_unicode = <<>> THEN <<>>
  ELSE IF type_hex_digit(Head(hex_unicode), known) = <<>> THEN <<>>
  ELSE type_hex_digit(Head(hex_unicode), known)
         \o type_hex_break(Tail(hex_unicode), known)

RECURSIVE type_hex(_, _)
type_hex(hex_unicode, known) ==
  IF hex_unicode = <<>> THEN <<>>
  ELSE type_hex_digit(Head(hex_unicode), known) \o type_hex(Tail(hex_unicode), known)

\* unicode_body guarded by the X connection instead of the keyboard.
unicode_body_on_display(sink, utf8, known) ==
  IF ~sink.XDisplay
    THEN <<>>
    ELSE <<pressCall(\HA2), pressCall(\HA0), pressCall(\H55), releaseCall(\H55)>>
           \o type_hex(to_hex(utf_to_utf(to_utf(utf8))), known)
           \o <<releaseCall(\HA0), releaseCall(\HA2)>>

\* The body of unicode: the calls it makes on raw->keyboard.
unicode_body(sink, utf8, known) ==
  IF ~sink.keyboard
    THEN <<>>
    ELSE LET utf8_str == to_utf(utf8)
             utf32_str == utf_to_utf(utf8_str)
             hex_unicode == to_hex(utf32_str)
         IN  <<pressCall(\HA2), pressCall(\HA0), pressCall(\H55), releaseCall(\H55)>>
               \o type_hex(hex_unicode, known)
               \o <<releaseCall(\HA0), releaseCall(\HA2)>>

unicode ==
  /\ call.op = "none"
  /\ \E sink \in Sinks, input \in UnicodeInputs, known \in LibevdevNames :
       /\ call' = [op |-> "unicode", raw |-> sink, utf8 |-> input.utf8,
                   text |-> input.text, unknown |-> DOMAIN EV_KEY \ known]
       /\ kbcalls' = unicode_body(sink, input.utf8, known)
  /\ xcalls' = <<>>
  /\ reads' = {}
  /\ found' = <<>>
  /\ UNCHANGED <<keycodes, tally>>

----------------------------------------------------------------------------
\* inputtino_mouse.cpp

XTestFakeRelativeMotionEventCall(x, y) ==
  [fn |-> "XTestFakeRelativeMotionEvent", x |-> x, y |-> y]
XTestFakeMotionEventCall(screen, x, y) ==
  [fn |-> "XTestFakeMotionEvent", screen |-> screen, x |-> x, y |-> y]
XTestFakeButtonEventCall(button, is_press) ==
  [fn |-> "XTestFakeButtonEvent", button |-> button, is_press |-> is_press]

\* platf::mouse::move
move_body(sink, deltaX, deltaY) ==
  IF sink.XDisplay
    THEN <<XTestFakeRelativeMotionEventCall(deltaX, deltaY), XFlushCall>>
    ELSE <<>>

move ==
  /\ call.op = "none"
  /\ \E sink \in Sinks, deltaX \in -MaxDelta..MaxDelta, deltaY \in -MaxDelta..MaxDelta :
       /\ call' = [op |-> "move", raw |-> sink, deltaX |-> deltaX, deltaY |-> deltaY]
       /\ xcalls' = move_body(sink, deltaX, deltaY)
  /\ kbcalls' = <<>>
  /\ reads' = {}
  /\ found' = <<>>
  /\ UNCHANGED <<keycodes, tally>>

\* std::round of the float q/4: to the nearest integer, halves away from zero.
round4(q) == IF q >= 0 THEN (q + 2) \div 4 ELSE -((2 - q) \div 4)

\* platf::mouse::move_abs, with x = x4/4 and y = y4/4; touch_port is not used.
move_abs_body(sink, x4, y4) ==
  IF sink.XDisplay
    THEN <<XTestFakeMotionEventCall(-1, round4(x4), round4(y4)), XFlushCall>>
    ELSE <<>>

move_abs ==
  /\ call.op = "none"
  /\ \E sink \in Sinks, x4 \in -MaxQuarter..MaxQuarter, y4 \in -MaxQuarter..MaxQuarter :
       /\ call' = [op |-> "move_abs", raw |-> sink, x4 |-> x4, y4 |-> y4]
       /\ xcalls' = move_abs_body(sink, x4, y4)
  /\ kbcalls' = <<>>
  /\ reads' = {}
  /\ found' = <<>>
  /\ UNCHANGED <<keycodes, tally>>

\* The button values of the protocol and the button numbers of X11.
BUTTON_LEFT == 1
BUTTON_MIDDLE == 2
BUTTON_RIGHT == 3
Button1 == 1
Button2 == 2
Button3 == 3
Button6 == 6
Button7 == 7

\* The values button is called with: the five of the protocol and others.
ButtonValues == -1..6

\* button without the return of the default case: XButtonType is used as it is.
button_body_no_default(sink, button_, release) ==
  LET XButtonType == CASE button_ = BUTTON_LEFT -> Button1
                       [] button_ = BUTTON_MIDDLE -> Button2
                       [] button_ = BUTTON_RIGHT -> Button3
                       [] OTHER -> 0
  IN  IF sink.XDisplay
        THEN <<XTestFakeButtonEventCall(XButtonType, ~release), XFlushCall>>
        ELSE <<>>

\* platf::mouse::button
button_body(sink, button_, release) ==
  LET known == button_ \in {BUTTON_LEFT, BUTTON_MIDDLE, BUTTON_RIGHT}
      XButtonType == CASE button_ = BUTTON_LEFT -> Button1
                       [] button_ = BUTTON_MIDDLE -> Button2
                       [] button_ = BUTTON_RIGHT -> Button3
                       [] OTHER -> 0
  IN  IF ~known THEN <<>>
      ELSE IF sink.XDisplay
        THEN <<XTestFakeButtonEventCall(XButtonType, ~release), XFlushCall>>
        ELSE <<>>

button ==
  /\ call.op = "none"
  /\ \E sink \in Sinks, button_ \in ButtonValues, release \in BOOLEAN :
       /\ call' = [op |-> "button", raw |-> sink, button |-> button_,
                   release |-> release]
       /\ xcalls' = button_body(sink, button_, release)
  /\ kbcalls' = <<>>
  /\ reads' = {}
  /\ found' = <<>>
  /\ UNCHANGED <<keycodes, tally>>

\* a / b rounded toward minus infinity.
int_div_floor(a, b) == a \div b

\* a / b of two ints, b > 0: the quotient is truncated toward zero.
int_div(a, b) == IF a >= 0 THEN a \div b ELSE -((-a) \div b)

abs(i) == IF i < 0 THEN -i ELSE i

\* The loop of x_scroll after i rounds of n: a press and a release per round.
RECURSIVE x_scroll_loop(_, _, _)
x_scroll_loop(button_, i, n) ==
  IF i < n
    THEN << XTestFakeButtonEventCall(button_, TRUE),
            XTestFakeButtonEventCall(button_, FALSE) >>
           \o x_scroll_loop(button_, i + 1, n)
    ELSE <<>>

\* x_scroll with the two buttons taken the other way round.
x_scroll_swapped(sink, distance, button_pos, button_neg) ==
  IF ~sink.XDisplay
    THEN <<>>
    ELSE LET button_ == IF distance > 0 THEN button_neg ELSE button_pos
         IN  x_scroll_loop(button_, 0, abs(distance)) \o <<XFlushCall>>

\* platf::mouse::x_scroll
x_scroll(sink, distance, button_pos, button_neg) ==
  IF ~sink.XDisplay
    THEN <<>>
    ELSE LET button_ == IF distance > 0 THEN button_pos ELSE button_neg
         IN  x_scroll_loop(button_, 0, abs(distance)) \o <<XFlushCall>>

\* scroll that adds what the earlier calls of the run left below one quantum.
scroll_body_carry(sink, high_res_distance) ==
  x_scroll(sink,
           int_div(high_res_distance
                     + (tally.distance - 60 * int_div(tally.distance, 60)), 60),
           4, 5)

\* platf::mouse::scroll
scroll_body(sink, high_res_distance) ==
  x_scroll(sink, int_div(high_res_distance, 60), 4, 5)

\* platf::mouse::hscroll
hscroll_body(sink, high_res_distance) ==
  x_scroll(sink, int_div(high_res_distance, 60), Button6, Button7)

scroll ==
  /\ call.op = "none"
  /\ \E sink \in Sinks, high_res_distance \in -MaxDistance..MaxDistance :
       /\ call' = [op |-> "scroll", raw |-> sink,
                   high_res_distance |-> high_res_distance]
       /\ xcalls' = scroll_body(sink, high_res_distance)
  /\ kbcalls' = <<>>
  /\ reads' = {}
  /\ found' = <<>>
  /\ UNCHANGED <<keycodes, tally>>

hscroll ==
  /\ call.op = "none"
  /\ \E sink \in Sinks, high_res_distance \in -MaxDistance..MaxDistance :
       /\ call' = [op |-> "hscroll", raw |-> sink,
                   high_res_distance |-> high_res_distance]
       /\ xcalls' = hscroll_body(sink, high_res_distance)
  /\ kbcalls' = <<>>
  /\ reads' = {}
  /\ found' = <<>>
  /\ UNCHANGED <<keycodes, tally>>

----------------------------------------------------------------------------
\* The handler has returned; the next event is dispatched from here.
return ==
  /\ call.op # "none"
  /\ call' = [op |-> "none"]
  /\ xcalls' = <<>>
  /\ kbcalls' = <<>>
  /\ reads' = {}
  /\ found' = <<>>
  /\ UNCHANGED <<keycodes, tally>>

----------------------------------------------------------------------------
Init ==
  /\ call = [op |-> "none"]
  /\ keycodes = init_keycodes
  /\ xcalls = <<>>
  /\ kbcalls = <<>>
  /\ reads = {}
  /\ found = <<>>
  /\ tally = [calls |-> 0, distance |-> 0, pulses |-> 0, below |-> TRUE]

Next ==
  \/ update
  \/ unicode
  \/ move
  \/ move_abs
  \/ button
  \/ scroll
  \/ hscroll
  \/ return

Spec == Init /\ [][Next]_vars

----------------------------------------------------------------------------
\* A run of scroll and hscroll calls, one after the other, with the observer's
\* count kept over the run.

\* The distances of the calls of a run: below, at and above one quantum.
RunDistances == {-90, -59, -30, 0, 30, 59, 60, 120}

\* The sinks of a run: with and without the X connection.
RunSinks == {sink \in Sinks : ~sink.keyboard /\ ~sink.mouse}

\* The presses among the X calls of one handler.
PressesIn(calls) ==
  Cardinality({i \in 1..Len(calls) :
                 calls[i].fn = "XTestFakeButtonEvent" /\ calls[i].is_press})

\* The count after a call with distance d that made the X calls `calls`.
Counted(d, calls) ==
  [calls |-> tally.calls + 1,
   distance |-> tally.distance + d,
   pulses |-> tally.pulses + PressesIn(calls),
   below |-> tally.below /\ abs(d) < 60]

run_scroll ==
  /\ tally.calls < MaxCalls
  /\ \E sink \in RunSinks, high_res_distance \in RunDistances :
       /\ call' = [op |-> "scroll", raw |-> sink,
                   high_res_distance |-> high_res_distance]
       /\ xcalls' = scroll_body(sink, high_res_distance)
       /\ tally' = Counted(high_res_distance, scroll_body(sink, high_res_distance))
  /\ kbcalls' = <<>>
  /\ reads' = {}
  /\ found' = <<>>
  /\ UNCHANGED keycodes

run_hscroll ==
  /\ tally.calls < MaxCalls
  /\ \E sink \in RunSinks, high_res_distance \in RunDistances :
       /\ call' = [op |-> "hscroll", raw |-> sink,
                   high_res_distance |-> high_res_distance]
       /\ xcalls' = hscroll_body(sink, high_res_distance)
       /\ tally' = Counted(high_res_distance, hscroll_body(sink, high_res_distance))
  /\ kbcalls' = <<>>
  /\ reads' = {}
  /\ found' = <<>>
  /\ UNCHANGED keycodes

RunNext ==
  \/ run_scroll
  \/ run_hscroll

SpecScrollRun == Init /\ [][RunNext]_vars

----------------------------------------------------------------------------
\* The claims.

\* A call of update on a sink with a live X connection.
UpdateOnDisplay == call.op = "update" /\ call.raw.XDisplay

\* The keycode_t a __CONVERT line of the source writes for protocol code c.
LineTriple(c) ==
  LET l == ConvertLines[CHOOSE n \in 1..Len(ConvertLines) : ConvertLines[n][1] = c]
  IN  [keycode |-> l[2], scancode |-> l[3], keysym |-> l[4]]

\* C1: with a live X connection, update with a modcode that is no index of the
\* table (the table's size included) or whose element has keysym UNKNOWN makes
\* no X call at all and reads no element outside the table.
C1_UnsupportedCodeIsNoOp ==
  (UpdateOnDisplay
     /\ (call.modcode \notin 0..(KeycodesSize - 1)
           \/ init_keycodes[call.modcode].keysym = UNKNOWN))
    => (xcalls = <<>> /\ reads \subseteq 0..(KeycodesSize - 1))

\* C2 as stated: the lookup of update yields, for every protocol code with a
\* __CONVERT line (0x5F VKEY_SLEEP included), exactly that line's triple, and
\* nothing for every index without a line.
C2_LookupAgreesOnEveryLine ==
  (UpdateOnDisplay /\ call.modcode \in 0..(KeycodesSize - 1))
    => found = (IF call.modcode \in LiteralCodes
                  THEN <<LineTriple(call.modcode)>>
                  ELSE <<>>)

\* C2 amended: the lookup yields exactly the line's triple for every protocol
\* code whose __CONVERT line has a key symbol other than UNKNOWN, and nothing
\* for 0x5F VKEY_SLEEP (key symbol UNKNOWN) and for every index without a line.
C2_LookupAgreesOnMappedLines ==
  (UpdateOnDisplay /\ call.modcode \in 0..(KeycodesSize - 1))
    => found = (IF call.modcode \in LiteralCodes
                     /\ LineTriple(call.modcode).keysym # UNKNOWN
                  THEN <<LineTriple(call.modcode)>>
                  ELSE <<>>)

\* update has looked up 0x0C VKEY_CLEAR, whose line has no scancode but a key
\* symbol, and has found its triple.
C2_Witness ==
  /\ UpdateOnDisplay
  /\ call.modcode = \H0C
  /\ found = <<[keycode |-> EV_KEY.KEY_CLEAR, scancode |-> UNKNOWN,
                keysym |-> XK.XK_Clear]>>

\* A call of unicode on a sink with a live virtual keyboard.
UnicodeOnKeyboard == call.op = "unicode" /\ call.raw.keyboard

\* The number of hex digits of n, n below 16^6.
HexWidth(n) == CHOOSE k \in 1..6 : n < 16^k /\ (k = 1 \/ n >= 16^(k - 1))

\* The hex digits of n as numbers, most significant first.
HexDigitsOf(n) == [i \in 1..HexWidth(n) |-> (n \div 16^(HexWidth(n) - i)) % 16]

RECURSIVE HexDigitsOfText(_)
HexDigitsOfText(text) ==
  IF text = <<>> THEN <<>>
  ELSE HexDigitsOf(Head(text)) \o HexDigitsOfText(Tail(text))

\* The protocol key of a hex digit: 0-9 are 0x30-0x39, A-F are 0x41-0x46.
HexDigitKey(d) == IF d < 10 THEN \H30 + d ELSE \H41 + (d - 10)

\* The key name of a hex digit.
HexDigitName(d) ==
  "KEY_" \o <<"0", "1", "2", "3", "4", "5", "6", "7", "8", "9",
              "A", "B", "C", "D", "E", "F">>[d + 1]

\* press(d), release(d) for each digit of ds, in order.
TypedDigits(ds) ==
  [i \in 1..(2 * Len(ds)) |->
     IF i % 2 = 1
       THEN [fn |-> "press", key |-> HexDigitKey(ds[(i + 1) \div 2])]
       ELSE [fn |-> "release", key |-> HexDigitKey(ds[i \div 2])]]

BracketOpen ==
  << [fn |-> "press", key |-> \HA2], [fn |-> "press", key |-> \HA0],
     [fn |-> "press", key |-> \H55], [fn |-> "release", key |-> \H55] >>

BracketClose ==
  << [fn |-> "release", key |-> \HA0], [fn |-> "release", key |-> \HA2] >>

\* How often the call made fn(key) on the virtual keyboard.
KbCount(fn, key) ==
  Cardinality({i \in 1..Len(kbcalls) : kbcalls[i] = [fn |-> fn, key |-> key]})

KbKeys == {kbcalls[i].key : i \in 1..Len(kbcalls)}

\* C3: with a live virtual keyboard and a text whose hex digits all resolve,
\* unicode sends exactly press(0xA2), press(0xA0), press(0x55), release(0x55),
\* then press(d), release(d) for each digit d of the concatenated upper-case
\* hex renderings of the code points, then release(0xA0), release(0xA2): one
\* opening and one closing however many code points there are.
C3_UnicodeFixedBracket ==
  (UnicodeOnKeyboard
     /\ \A i \in 1..Len(HexDigitsOfText(call.text)) :
          HexDigitName(HexDigitsOfText(call.text)[i]) \notin call.unknown)
    => /\ kbcalls = BracketOpen \o TypedDigits(HexDigitsOfText(call.text))
                      \o BracketClose
       /\ KbCount("press", \HA2) = 1 /\ KbCount("release", \HA2) = 1
       /\ KbCount("press", \HA0) = 1 /\ KbCount("release", \HA0) = 1
       /\ KbCount("press", \H55) = 1 /\ KbCount("release", \H55) = 1

\* unicode has typed U+41 U+1F471 in one bracket: 4 + 2 * 7 + 2 calls.
C3_Witness ==
  /\ UnicodeOnKeyboard
  /\ call.text = <<\H41, \H1F471>>
  /\ call.unknown = {}
  /\ Len(kbcalls) = 20
  /\ SubSeq(kbcalls, 5, 8) = << [fn |-> "press", key |-> \H34],
                                [fn |-> "release", key |-> \H34],
                                [fn |-> "press", key |-> \H31],
                                [fn |-> "release", key |-> \H31] >>

\* The digits of ds whose key name resolves.
ResolvedDigits(ds, unknown) ==
  LET resolves(d) == HexDigitName(d) \notin unknown
  IN  SelectSeq(ds, resolves)

\* C4: whatever the text and whichever digits fail to resolve, when unicode
\* returns every key has been released as often as it was pressed and was
\* never released before it was pressed; a digit that does not resolve adds no
\* press and no release, the digits after it are still typed, and
\* release(0xA0), release(0xA2) end the call.
C4_UnicodeBalanced ==
  UnicodeOnKeyboard
    => /\ \A key \in KbKeys : KbCount("press", key) = KbCount("release", key)
       /\ \A n \in 1..Len(kbcalls) : \A key \in KbKeys :
            Cardinality({i \in 1..n : kbcalls[i] = [fn |-> "press", key |-> key]})
              >= Cardinality({i \in 1..n : kbcalls[i] = [fn |-> "release", key |-> key]})
       /\ kbcalls = BracketOpen
                      \o TypedDigits(ResolvedDigits(HexDigitsOfText(call.text),
                                                    call.unknown))
                      \o BracketClose
       /\ SubSeq(kbcalls, Len(kbcalls) - 1, Len(kbcalls)) = BracketClose

\* unicode has typed U+1F471 with KEY_F and KEY_4 unresolvable: the digits 1,
\* 7 and 1 are typed, the 7 and the last 1 after the digits that were skipped.
C4_Witness ==
  /\ UnicodeOnKeyboard
  /\ call.text = <<\H1F471>>
  /\ call.unknown = {"KEY_F", "KEY_4"}
  /\ kbcalls = BracketOpen
                 \o << [fn |-> "press", key |-> \H31], [fn |-> "release", key |-> \H31],
                       [fn |-> "press", key |-> \H37], [fn |-> "release", key |-> \H37],
                       [fn |-> "press", key |-> \H31], [fn |-> "release", key |-> \H31] >>
                 \o BracketClose

\* A call of scroll or hscroll on a sink with a live X connection.
ScrollOnDisplay == call.op \in {"scroll", "hscroll"} /\ call.raw.XDisplay

\* How many button events with is_press = p the call made.
XButtonEvents(p) ==
  Cardinality({i \in 1..Len(xcalls) :
                 xcalls[i].fn = "XTestFakeButtonEvent" /\ xcalls[i].is_press = p})

\* How many calls of fn the call made on the X connection.
XCount(fn) == Cardinality({i \in 1..Len(xcalls) : xcalls[i].fn = fn})

\* |d|
Magnitude(d) == IF d < 0 THEN 0 - d ELSE d

\* C5: with a live X connection, scroll(d) and hscroll(d) make exactly
\* |d| / 60 (truncated) presses and as many releases, for every d; 180 gives 3
\* pulses, 60 gives 1 and every |d| < 60 gives none.
C5_ScrollQuantization ==
  ScrollOnDisplay
    => /\ XButtonEvents(TRUE) = Magnitude(call.high_res_distance) \div 60
       /\ XButtonEvents(FALSE) = Magnitude(call.high_res_distance) \div 60
       /\ (call.high_res_distance = 180 => XButtonEvents(TRUE) = 3)
       /\ (call.high_res_distance = 60 => XButtonEvents(TRUE) = 1)
       /\ (Magnitude(call.high_res_distance) < 60 => XCount("XTestFakeButtonEvent") = 0)

\* scroll(-180) has made three pulses.
C5_Witness ==
  /\ ScrollOnDisplay
  /\ call.op = "scroll"
  /\ call.high_res_distance = -180
  /\ XButtonEvents(TRUE) = 3
  /\ XButtonEvents(FALSE) = 3

\* The button a scroll call acts on: 4/5 for scroll, 6/7 for hscroll, the
\* first for a positive distance, the second for a negative one.
ScrollButton ==
  IF call.op = "scroll"
    THEN (IF call.high_res_distance > 0 THEN 4 ELSE 5)
    ELSE (IF call.high_res_distance > 0 THEN 6 ELSE 7)

\* C6: all button events of one scroll call are on the one button the sign of
\* the distance selects, and they alternate press, release, press, release,
\* from a press to a release: the button is up when the call returns.
C6_ScrollDirectionAndPairing ==
  ScrollOnDisplay
    => /\ \A i \in 1..Len(xcalls) :
            xcalls[i].fn = "XTestFakeButtonEvent"
              => /\ xcalls[i].button = ScrollButton
                 /\ xcalls[i].is_press = (i % 2 = 1)
                 /\ (xcalls[i].is_press
                       => /\ i < Len(xcalls)
                          /\ xcalls[i + 1] = [fn |-> "XTestFakeButtonEvent",
                                              button |-> ScrollButton,
                                              is_press |-> FALSE])
       /\ XButtonEvents(TRUE) = XButtonEvents(FALSE)

\* hscroll(-120) has pressed and released button 7 twice.
C6_Witness ==
  /\ ScrollOnDisplay
  /\ call.op = "hscroll"
  /\ call.high_res_distance = -120
  /\ SubSeq(xcalls, 1, 4)
       = << [fn |-> "XTestFakeButtonEvent", button |-> 7, is_press |-> TRUE],
            [fn |-> "XTestFakeButtonEvent", button |-> 7, is_press |-> FALSE],
            [fn |-> "XTestFakeButtonEvent", button |-> 7, is_press |-> TRUE],
            [fn |-> "XTestFakeButtonEvent", button |-> 7, is_press |-> FALSE] >>

\* C7: button with a value other than left, middle and right makes no X call;
\* with left, middle or right and a live X connection it makes exactly one
\* button event, on button 1, 2 or 3, a press iff release is false.
C7_ButtonEmission ==
  call.op = "button"
    => IF call.button \notin {BUTTON_LEFT, BUTTON_MIDDLE, BUTTON_RIGHT}
         THEN xcalls = <<>>
         ELSE call.raw.XDisplay
                => /\ XCount("XTestFakeButtonEvent") = 1
                   /\ \E i \in 1..Len(xcalls) :
                        xcalls[i] = [fn |-> "XTestFakeButtonEvent",
                                     button |-> (CASE call.button = BUTTON_LEFT -> 1
                                                   [] call.button = BUTTON_MIDDLE -> 2
                                                   [] call.button = BUTTON_RIGHT -> 3),
                                     is_press |-> ~call.release]

\* button was called with the unsupported value 4 on a live X connection.
C7_Witness ==
  /\ call.op = "button"
  /\ call.raw.XDisplay
  /\ call.button = 4
  /\ ~call.release
  /\ xcalls = <<>>

\* C8: a call of update submits no or one key event; for a mapped virtual key
\* whose key symbol resolves to a keycode other than 0 it submits exactly one,
\* a press iff release is false, and flushes after it; when the key symbol
\* resolves to 0 it submits no event and does not flush; the table is as built.
C8_UpdateZeroOrOneEvent ==
  /\ keycodes = init_keycodes
  /\ call.op = "update"
       => /\ XCount("XTestFakeKeyEvent") <= 1
          /\ XCount("XFlush") = XCount("XTestFakeKeyEvent")
  /\ (UpdateOnDisplay
        /\ call.modcode \in LiteralCodes
        /\ LineTriple(call.modcode).keysym # UNKNOWN)
       => xcalls = (IF call.keycode_x # 0
                      THEN << [fn |-> "XKeysymToKeycode",
                               keysym |-> LineTriple(call.modcode).keysym],
                              [fn |-> "XTestFakeKeyEvent",
                               keycode |-> call.keycode_x,
                               is_press |-> ~call.release],
                              [fn |-> "XFlush"] >>
                      ELSE << [fn |-> "XKeysymToKeycode",
                               keysym |-> LineTriple(call.modcode).keysym] >>)

\* update has released 0x41 VKEY_A, which the server resolved to keycode 38.
C8_Witness ==
  /\ UpdateOnDisplay
  /\ call.modcode = \H41
  /\ call.release
  /\ xcalls = << [fn |-> "XKeysymToKeycode", keysym |-> XK.XK_A],
                 [fn |-> "XTestFakeKeyEvent", keycode |-> 38, is_press |-> FALSE],
                 [fn |-> "XFlush"] >>

\* The element the source gives index c: its line's triple, or zeroes.
LiteralElement(c) ==
  IF c \in LiteralCodes THEN LineTriple(c)
  ELSE [keycode |-> 0, scancode |-> 0, keysym |-> 0]

\* The table with the indices 0x00..0xE2, each holding the element the source
\* gives it.
LiteralTableUpToE2 == [c \in 0..\HE2 |-> LiteralElement(c)]

\* C9 as stated: every protocol code of 0x00..0xE3, both ends included, is an
\* index of the table and holds its literal mapping or a zero-valued element.
C9_IndexedUpToE3Inclusive ==
  \A c \in 0..\HE3 : c \in DOMAIN keycodes /\ keycodes[c] = LiteralElement(c)

\* C9 amended: the indices of the table are the protocol codes 0x00..0xE2 (it
\* has 0xE3 elements, 0xE3 itself is no index); each holds its literal mapping
\* if assigned and a zero-valued element otherwise, in every state: the table
\* is never changed after construction.
C9_IndexedUpToE2 == keycodes = LiteralTableUpToE2

\* After a call of update on 0xE2, the last code of the table.
C9_Witness ==
  /\ UpdateOnDisplay
  /\ call.modcode = \HE2
  /\ found = <<keycodes[\HE2]>>
  /\ keycodes[\HE2].keycode = EV_KEY.KEY_102ND
  /\ keycodes[0] = [keycode |-> 0, scancode |-> 0, keysym |-> 0]
  /\ \HE3 \notin DOMAIN keycodes

\* C10: update, move, move_abs, button, scroll and hscroll call nothing but
\* the X connection and nothing at all when it is absent, whatever virtual
\* devices the sink holds; unicode calls nothing but the virtual keyboard and
\* nothing at all when it is absent, whether or not the X connection is there.
C10_BackendsNotCrossed ==
  /\ call.op \in {"update", "move", "move_abs", "button", "scroll", "hscroll"}
       => /\ kbcalls = <<>>
          /\ (~call.raw.XDisplay => xcalls = <<>>)
  /\ call.op = "unicode"
       => /\ xcalls = <<>>
          /\ (~call.raw.keyboard => kbcalls = <<>>)

\* unicode was called with text on a sink that has the X connection and the
\* virtual mouse but no virtual keyboard.
C10_Witness ==
  /\ call.op = "unicode"
  /\ call.raw = [XDisplay |-> TRUE, keyboard |-> FALSE, mouse |-> TRUE]
  /\ call.text = <<\H41>>
  /\ xcalls = <<>>
  /\ kbcalls = <<>>

\* C11: in a run of scroll and hscroll calls the pulses of a call are
\* |d| / 60 of that call's own distance d, whatever the calls before it were
\* and whatever they left below one quantum; a run whose distances are all
\* below 60 in magnitude makes no pulse at all, however many calls it has and
\* whatever their sum is.
C11_ScrollKeepsNoState ==
  /\ (tally.calls > 0 /\ call.raw.XDisplay)
       => XButtonEvents(TRUE) = Magnitude(call.high_res_distance) \div 60
  /\ tally.below => tally.pulses = 0
  /\ (tally.calls > 0 /\ Magnitude(call.high_res_distance) < 60)
       => XCount("XTestFakeButtonEvent") = 0

\* Three calls on a live X connection, each below one quantum, their sum two
\* quanta and more: no pulse was made.
C11_Witness ==
  /\ tally.calls = 3
  /\ tally.below
  /\ tally.distance = 148
  /\ tally.pulses = 0
  /\ call.raw.XDisplay
  /\ call.op = "scroll"

\* C12: for each of the sixteen characters 0-9 and A-F, the local keycode
\* named KEY_<character> is a key of the reverse table, its value v is 0x30-0x39
\* for 0-9 and 0x41-0x46 for A-F, and the forward table's element v has that
\* same local keycode; so unicode, with a libevdev that knows these names,
\* types every digit of every code point: none is skipped.
C12_ReverseTableResolvesHexDigits ==
  /\ \A d \in 0..15 :
       /\ HexDigitName(d) \in DOMAIN EV_KEY
       /\ EV_KEY[HexDigitName(d)] \in DOMAIN key_mappings
       /\ key_mappings[EV_KEY[HexDigitName(d)]] = HexDigitKey(d)
       /\ HexDigitKey(d) \in DOMAIN keycodes
       /\ keycodes[HexDigitKey(d)].keycode = EV_KEY[HexDigitName(d)]
  /\ (UnicodeOnKeyboard /\ call.unknown = {})
       => /\ Len(kbcalls) = 6 + 2 * Len(HexDigitsOfText(call.text))
          /\ \A i \in 1..Len(HexDigitsOfText(call.text)) :
               /\ kbcalls[3 + 2 * i]
                    = [fn |-> "press",
                       key |-> key_mappings[EV_KEY[HexDigitName(HexDigitsOfText(call.text)[i])]]]
               /\ kbcalls[4 + 2 * i]
                    = [fn |-> "release",
                       key |-> key_mappings[EV_KEY[HexDigitName(HexDigitsOfText(call.text)[i])]]]

\* unicode has typed U+356 U+BCD, six digits, letters and figures, none skipped.
C12_Witness ==
  /\ UnicodeOnKeyboard
  /\ call.unknown = {}
  /\ call.text = <<\H356, \HBCD>>
  /\ Len(kbcalls) = 18
  /\ kbcalls[5] = [fn |-> "press", key |-> \H33]
  /\ kbcalls[13] = [fn |-> "press", key |-> \H43]
  /\ kbcalls[15] = [fn |-> "press", key |-> \H44]

====
